---- MODULE Spec2Model ----
(***************************************************************************)
(* Model of the per-node simulation engine of petri (src/src/engine.rs,    *)
(* src/src/model.rs): a cohort of nodes, each running Engine::new and then *)
(* the loop of Engine::run, exchanging ActiveEvent / PassiveEvent lines    *)
(* through each receiver's listener thread and per-feeding-node channels.  *)
(***************************************************************************)
EXTENDS Integers, Sequences, FiniteSets, TLC

VARIABLES
    cohort,                  \* the cohort this run was started with (nets, terminal_clock)
    pc,                      \* per node: position of the engine thread
    clock,                   \* Engine.clock
    net,                     \* Engine.net.transitions
    fed_nodes,               \* Engine.fed_nodes
    feeding_nodes,           \* Engine.feeding_nodes: sequence of [name, clock]
    internal_active_events,  \* Engine.internal_active_events
    external_active_events,  \* Engine.external_active_events
    listener,                \* state of the listener thread of each node
    accept_queue,            \* per node: lines written to its endpoint, not yet read by its listener
    channel,                 \* per node, per feeding-node name: lines routed by the listener, not yet received
    iter,                    \* number of loop iterations a node has started
    fired,                   \* history: <<transition id, engine clock>> of every firing, in order
    snapshot,                \* history: the transitions at the start of the latest firing phase
    fired_now,               \* history: ids fired in the latest firing phase, in firing order
    sent,                    \* history: <<destination, line>> written in the latest dispatch phase
    received,                \* history: lines consumed by the latest tick, in consumption order
    clock_before_tick,       \* history: Engine.clock when the latest tick started
    taken_blocking,          \* history: per entry of feeding_nodes, the lines its recv() returned in the latest tick
    integration_start,       \* history: the transitions and the internal buffer when the latest handle_internal_events started
    stranger_lines           \* number of lines clients outside the cohort have written so far

vars == <<cohort, pc, clock, net, fed_nodes, feeding_nodes, internal_active_events,
          external_active_events, listener, accept_queue, channel, iter,
          fired, snapshot, fired_now, sent, received, clock_before_tick,
          taken_blocking, integration_start, stranger_lines>>

(***************************************************************************)
(* Bounds of the model.                                                    *)
(***************************************************************************)
\* a node starts at most MaxIter loop iterations
MaxIter == 6
\* terminal_clock handed to Engine::new in the cohorts with little traffic
TerminalClock == 4
\* terminal_clock handed to Engine::new in the cohorts with much traffic
ShortTerminalClock == 2

\* no cohort has more than MaxNodes nodes
MaxNodes == 3

\* clients outside the cohort write at most MaxStrangerLines lines in a run
MaxStrangerLines == 1

\* Engine.step
step == 1

(***************************************************************************)
(* Sequence helpers.                                                       *)
(***************************************************************************)
Min(S) == CHOOSE x \in S : \A y \in S : x <= y

Reverse(s) == [i \in 1..Len(s) |-> s[Len(s) + 1 - i]]

Range(s) == {s[i] : i \in 1..Len(s)}

RECURSIVE Flatten(_)
Flatten(ss) == IF ss = <<>> THEN <<>> ELSE Head(ss) \o Flatten(Tail(ss))

(***************************************************************************)
(* model.rs: instructions and transitions as loaded from a net file.       *)
(***************************************************************************)
\* Instruction::new: a raw pair (encoded id, value); a negative encoded id
\* marks an external instruction whose true id is -(encoded + 1)
InstructionNew(raw) ==
    LET is_external == raw[1] < 0
    IN  [transition_id |-> IF is_external THEN -(raw[1] + 1) ELSE raw[1],
         value         |-> raw[2],
         is_external   |-> is_external]

parse_instructions(instructions) ==
    [i \in 1..Len(instructions) |-> InstructionNew(instructions[i])]

\* Net::new: one json transition record into a Transition
TransitionNew(ii_idglobal, ii_valor, ii_tiempo, ii_duracion_disparo, iul, pul) ==
    [id                     |-> ii_idglobal,
     value                  |-> ii_valor,
     clock                  |-> ii_tiempo,
     duration               |-> ii_duracion_disparo,
     immediate_instructions |-> parse_instructions(iul),
     delayed_instructions   |-> parse_instructions(pul)]

\* events as the json objects serde writes for them
ActiveEvent(feeding_node, transition_id, value, clk) ==
    [feeding_node |-> feeding_node, transition_id |-> transition_id,
     value |-> value, clock |-> clk]

PassiveEvent(feeding_node, clk) ==
    [feeding_node |-> feeding_node, clock |-> clk]

\* serde_json::from_str::<ActiveEvent>: every field of the struct is present
ParsesAsActive(line) ==
    {"feeding_node", "transition_id", "value", "clock"} \subseteq DOMAIN line

\* serde_json::from_str::<PassiveEvent>: unknown fields are ignored
ParsesAsPassive(line) ==
    {"feeding_node", "clock"} \subseteq DOMAIN line

\* serde_json::from_str::<GenericEvent>
ParsesAsGeneric(line) ==
    "feeding_node" \in DOMAIN line

(***************************************************************************)
(* Engine::new: the maps every node derives from the cohort's nets.        *)
(* A cohort is [nets, terminal_clock]; node i of the sorted node list gets *)
(* nets[i], so nodes are named by their index.                             *)
(***************************************************************************)
NodesOf(c) == 1..Len(c.nets)

\* collect::<HashMap<usize, String>>: a later net's entry replaces an earlier one
transition2node(nets) ==
    LET ids == UNION {{nets[k][i].id : i \in 1..Len(nets[k])} : k \in 1..Len(nets)}
    IN  [id \in ids |->
            CHOOSE k \in 1..Len(nets) :
                /\ \E i \in 1..Len(nets[k]) : nets[k][i].id = id
                /\ \A l \in (k + 1)..Len(nets) :
                       \A i \in 1..Len(nets[l]) : nets[l][i].id # id]

\* the (node, fed_node) pairs pushed by the fold, in push order: one per
\* external delayed instruction, nothing is deduplicated
FedPairs(nets) ==
    LET t2n == transition2node(nets)
        OfTransition(t) ==
            LET ext == SelectSeq(t.delayed_instructions, LAMBDA ins : ins.is_external)
            IN  [j \in 1..Len(ext) |-> <<t2n[t.id], t2n[ext[j].transition_id]>>]
        OfNet(transitions) ==
            Flatten([i \in 1..Len(transitions) |-> OfTransition(transitions[i])])
    IN  Flatten([k \in 1..Len(nets) |-> OfNet(nets[k])])

\* a node with no external delayed instruction has no entry
node2fed_nodes(nets) ==
    LET pairs == FedPairs(nets)
    IN  [k \in {p[1] : p \in Range(pairs)} |->
            LET mine == SelectSeq(pairs, LAMBDA p : p[1] = k)
            IN  [j \in 1..Len(mine) |-> mine[j][2]]]

\* the orders in which a HashMap may iterate over its keys
IterationOrders(keys) ==
    {order \in [1..Cardinality(keys) -> keys] : Range(order) = keys}

\* reverse_hashmap, iterating the input's keys in `order`
reverse_hashmap(input, order) ==
    LET values == UNION {Range(input[k]) : k \in DOMAIN input}
    IN  [v \in values |->
            Flatten([i \in 1..Len(order) |->
                LET hits == SelectSeq(input[order[i]], LAMBDA x : x = v)
                IN  [j \in 1..Len(hits) |-> order[i]]])]

\* FeedingNode { name, clock: 0, channel: rx }
FeedingNodeNew(name) == [name |-> name, clock |-> 0]

\* feeding_node2channel keeps one Sender per name, the last one inserted:
\* entry i of feeding_nodes has a live channel iff no later entry has its name
HasSender(fns, i) ==
    \A j \in (i + 1)..Len(fns) : fns[j].name # fns[i].name

(***************************************************************************)
(* Engine::run, phase 1: firing.                                           *)
(***************************************************************************)
\* IsDue without the test of the value
IsDueMutNoValue(transition, clk) ==
    transition.clock = clk

\* the filter of the firing phase: enabled and due
IsDue(transition, clk) ==
    transition.clock = clk /\ transition.value <= 0

\* DueTransitions without the rev()
DueTransitionsMutForward(transitions, clk) ==
    SelectSeq(transitions, LAMBDA t : IsDue(t, clk))

\* the transitions to fire, in firing order: the filter over a clone of the
\* net, reversed
DueTransitions(transitions, clk) ==
    Reverse(SelectSeq(transitions, LAMBDA t : IsDue(t, clk)))

\* process_immediate_instructions: each instruction sets the value of the
\* first local transition with its target id; a missing target panics
RECURSIVE process_immediate_instructions(_, _)
process_immediate_instructions(transitions, instructions) ==
    IF instructions = <<>>
    THEN [ok |-> TRUE, transitions |-> transitions]
    ELSE LET instruction == Head(instructions)
             found == {i \in 1..Len(transitions) :
                          transitions[i].id = instruction.transition_id}
         IN  IF found = {}
             THEN [ok |-> FALSE, transitions |-> transitions]
             ELSE process_immediate_instructions(
                      [transitions EXCEPT ![Min(found)].value = instruction.value],
                      Tail(instructions))

\* the clock stamped on the events of a firing transition
EventClock(transition) == transition.clock + transition.duration

\* process_delayed_instructions: the events pushed to the external
\* (is_external = TRUE) or internal (FALSE) buffer, in instruction order
process_delayed_instructions(node, transition, is_external) ==
    LET mine == SelectSeq(transition.delayed_instructions,
                          LAMBDA ins : ins.is_external = is_external)
    IN  [j \in 1..Len(mine) |->
            ActiveEvent(node, mine[j].transition_id, mine[j].value,
                        EventClock(transition))]

\* FireEach that passes over a selected transition whose value has been
\* raised above 0 since the selection
RECURSIVE FireEachMutLive(_, _, _)
FireEachMutLive(node, due, st) ==
    IF due = <<>> \/ ~st.ok
    THEN st
    ELSE LET transition == Head(due)
             imm == process_immediate_instructions(st.transitions,
                                                   transition.immediate_instructions)
             cancelled == \E i \in 1..Len(st.transitions) :
                              /\ st.transitions[i].id = transition.id
                              /\ st.transitions[i].value > 0
         IN  IF cancelled
             THEN FireEachMutLive(node, Tail(due), st)
             ELSE FireEachMutLive(node, Tail(due),
                      [ok          |-> imm.ok,
                       transitions |-> imm.transitions,
                       internal    |-> st.internal
                                       \o process_delayed_instructions(node, transition, FALSE),
                       external    |-> st.external
                                       \o process_delayed_instructions(node, transition, TRUE),
                       fired       |-> Append(st.fired, transition.id)])

\* the for_each of the firing phase over the due transitions, from engine
\* state st = [ok, transitions, internal, external, fired]
RECURSIVE FireEach(_, _, _)
FireEach(node, due, st) ==
    IF due = <<>> \/ ~st.ok
    THEN st
    ELSE LET transition == Head(due)
             imm == process_immediate_instructions(st.transitions,
                                                   transition.immediate_instructions)
         IN  FireEach(node, Tail(due),
                      [ok          |-> imm.ok,
                       transitions |-> imm.transitions,
                       internal    |-> st.internal
                                       \o process_delayed_instructions(node, transition, FALSE),
                       external    |-> st.external
                                       \o process_delayed_instructions(node, transition, TRUE),
                       fired       |-> Append(st.fired, transition.id)])

(***************************************************************************)
(* Engine::run, phase 2: handle_external_events.                           *)
(***************************************************************************)
\* PassiveClock without the step
PassiveClockMutNoStep(clk) == clk

\* the clock of a PassiveEvent
PassiveClock(clk) == clk + step

\* (fed_node, event) for every external event, in buffer order
active_events(t2n, external) ==
    [i \in 1..Len(external) |-> <<t2n[external[i].transition_id], external[i]>>]

\* (fed_node, event) for every entry of fed_nodes no active event goes to
passive_events(node, fed, covered_nodes, clk) ==
    LET uncovered == SelectSeq(fed, LAMBDA f : f \notin covered_nodes)
    IN  [i \in 1..Len(uncovered) |->
            <<uncovered[i], PassiveEvent(node, PassiveClock(clk))>>]

\* the deliveries of one dispatch, in delivery order
Deliveries(node, t2n, external, fed, clk) ==
    LET active == active_events(t2n, external)
        covered_nodes == {active[i][1] : i \in 1..Len(active)}
    IN  active \o passive_events(node, fed, covered_nodes, clk)

\* the external buffer without the clear()
ClearedMutKept(external) == external

\* external_active_events.clear()
Cleared(external) == <<>>

\* the lines a client outside the cohort may write: one that is no event at
\* all, and a PassiveEvent naming a feeding node (0) that is no node
StrangerLines == {[clock |-> 0], PassiveEvent(0, 0)}

(***************************************************************************)
(* Engine::run, phase 3: tick.                                             *)
(***************************************************************************)
earliest_clock(internal, fns, clk) ==
    LET clocks == {internal[i].clock : i \in 1..Len(internal)}
                  \cup {fns[i].clock : i \in 1..Len(fns)}
    IN  IF clocks = {} THEN clk ELSE Min(clocks)

\* the entries of feeding_nodes tick does a blocking recv() on
BlockingReceives(internal, fns, clk) ==
    {i \in 1..Len(fns) : fns[i].clock = earliest_clock(internal, fns, clk)}

\* how many lines the blocking recv() of entry i takes from its channel:
\* recv() on an empty channel without Sender returns Err at once
TakenBlocking(internal, fns, clk, chan, i) ==
    IF /\ i \in BlockingReceives(internal, fns, clk)
       /\ HasSender(fns, i)
       /\ chan[fns[i].name] # <<>>
    THEN 1 ELSE 0

\* how many lines the try_recv() of entry i takes after that
TakenTry(internal, fns, clk, chan, i) ==
    IF HasSender(fns, i)
       /\ Len(chan[fns[i].name]) > TakenBlocking(internal, fns, clk, chan, i)
    THEN 1 ELSE 0

\* the lines tick collects: the blocking receives in feeding_nodes order,
\* then one try_recv per feeding node in the same order
CollectedEvents(internal, fns, clk, chan) ==
    Flatten([i \in 1..Len(fns) |->
                SubSeq(chan[fns[i].name], 1, TakenBlocking(internal, fns, clk, chan, i))])
    \o
    Flatten([i \in 1..Len(fns) |->
                SubSeq(chan[fns[i].name],
                       TakenBlocking(internal, fns, clk, chan, i) + 1,
                       TakenBlocking(internal, fns, clk, chan, i)
                           + TakenTry(internal, fns, clk, chan, i))])

\* the for_each over the collected lines, from st = [ok, internal, fns]
RECURSIVE IntegrateReceived(_, _)
IntegrateReceived(events, st) ==
    IF events = <<>> \/ ~st.ok
    THEN st
    ELSE LET event == Head(events)
             found == {i \in 1..Len(st.fns) : st.fns[i].name = event.feeding_node}
         IN  IF ParsesAsActive(event)
             THEN IntegrateReceived(Tail(events),
                      [st EXCEPT !.internal =
                          Append(@, ActiveEvent(event.feeding_node, event.transition_id,
                                                event.value, event.clock))])
             ELSE IF ParsesAsPassive(event)
             THEN IntegrateReceived(Tail(events),
                      IF found = {} THEN st
                      ELSE [st EXCEPT !.fns[Min(found)].clock = event.clock])
             ELSE [st EXCEPT !.ok = FALSE]

\* the clock tick assigns
NextClock(internal, clk) ==
    IF internal = <<>> THEN clk + step
    ELSE Min({internal[i].clock : i \in 1..Len(internal)})

(***************************************************************************)
(* Engine::run, phase 4: handle_internal_events.                           *)
(***************************************************************************)
\* ApplyInternal in which an event whose target is not found is applied to
\* the first transition
RECURSIVE ApplyInternalMutStray(_, _, _)
ApplyInternalMutStray(transitions, events, clk) ==
    IF events = <<>>
    THEN transitions
    ELSE LET event == Head(events)
             found == {i \in 1..Len(transitions) :
                          transitions[i].id = event.transition_id}
             target == IF found = {} THEN 1 ELSE Min(found)
         IN  IF event.clock = clk
             THEN ApplyInternalMutStray(
                      [transitions EXCEPT ![target].clock = event.clock,
                                          ![target].value = event.value],
                      Tail(events), clk)
             ELSE ApplyInternalMutStray(transitions, Tail(events), clk)

\* the for_each over the events of the current clock, in buffer order
RECURSIVE ApplyInternal(_, _, _)
ApplyInternal(transitions, events, clk) ==
    IF events = <<>>
    THEN transitions
    ELSE LET event == Head(events)
             found == {i \in 1..Len(transitions) :
                          transitions[i].id = event.transition_id}
         IN  IF event.clock = clk /\ found # {}
             THEN ApplyInternal([transitions EXCEPT ![Min(found)].clock = event.clock,
                                                    ![Min(found)].value = event.value],
                                Tail(events), clk)
             ELSE ApplyInternal(transitions, Tail(events), clk)

\* RetainInternal that retains nothing
RetainInternalMutNone(events, clk) == <<>>

\* retain
RetainInternal(events, clk) ==
    SelectSeq(events, LAMBDA event : event.clock # clk)

(***************************************************************************)
(* The cohorts a run may be started with: nets as their json files give    *)
(* them (an external instruction's id is encoded as -(id + 1)).            *)
(***************************************************************************)
\* one node, one transition that re-arms itself every step
Scenario1 ==
    [nets |-> << <<TransitionNew(0, 0, 0, 1, <<>>, << <<0, 0>> >>)>> >>,
     terminal_clock |-> 3]

\* node 1 feeds node 2, nothing feeds node 1
Scenario2 ==
    [nets |-> << <<TransitionNew(0, 0, 0, 1, <<>>, << <<-2, -1>> >>)>>,
                 <<TransitionNew(1, 0, 0, 1, <<>>, <<>>)>> >>,
     terminal_clock |-> 2]

\* two nodes feeding each other, every firing takes one step
Mutual ==
    [nets |-> << <<TransitionNew(0, 0, 0, 1, <<>>, << <<0, 0>>, <<-2, 0>> >>)>>,
                 <<TransitionNew(1, 0, 0, 1, <<>>, << <<-1, 0>> >>)>> >>,
     terminal_clock |-> TerminalClock]

\* node 2 leaps from clock 0 to 3 on its own event while node 1, whose
\* transition 2 becomes due at clock 1, still has an event stamped 2 to send
JumpAhead ==
    [nets |-> << <<TransitionNew(0, 0, 0, 1, <<>>, << <<2, 0>> >>),
                   TransitionNew(2, 1, 0, 1, <<>>, << <<-2, 0>> >>)>>,
                 <<TransitionNew(1, 0, 0, 3, <<>>, << <<1, 0>> >>),
                   TransitionNew(3, 1, 0, 1, <<>>, << <<-1, 0>> >>)>> >>,
     terminal_clock |-> TerminalClock]

\* only passive events travel; node 2 leaps from clock 0 to 2
Leap ==
    [nets |-> << <<TransitionNew(0, 1, 0, 1, <<>>, << <<-2, 0>> >>)>>,
                 <<TransitionNew(1, 0, 0, 2, <<>>, << <<3, 1>> >>),
                   TransitionNew(3, 1, 0, 1, <<>>, << <<-1, 0>> >>)>> >>,
     terminal_clock |-> TerminalClock]

\* a firing of duration 0 with an external delayed instruction
ZeroDuration ==
    [nets |-> << <<TransitionNew(0, 0, 0, 0, <<>>, << <<-2, 0>> >>)>>,
                 <<TransitionNew(1, 1, 0, 1, <<>>, << <<-1, 1>> >>)>> >>,
     terminal_clock |-> TerminalClock]

\* several external delayed instructions aimed at the same peer
Duplicates ==
    [nets |-> << <<TransitionNew(0, 1, 0, 1, <<>>, << <<-2, 0>>, <<-4, 0>> >>)>>,
                 <<TransitionNew(1, 0, 0, 1, <<>>, << <<-1, 0>> >>),
                   TransitionNew(3, 0, 0, 1, <<>>, << <<-1, 1>> >>)>> >>,
     terminal_clock |-> ShortTerminalClock]

\* node 1: transitions 0 and 2 are due at clock 0 and their immediate
\* instructions touch each other and transition 4, which is not enabled
ReverseOrder ==
    [nets |-> << <<TransitionNew(0, 0, 0, 1, << <<2, 1>>, <<4, 5>> >>, << <<-2, 0>> >>),
                   TransitionNew(2, 0, 0, 1, << <<4, 7>>, <<0, 1>> >>, << <<2, 0>> >>),
                   TransitionNew(4, 1, 0, 1, <<>>, <<>>)>>,
                 <<TransitionNew(1, 1, 0, 1, <<>>, << <<-1, 0>> >>)>> >>,
     terminal_clock |-> TerminalClock]

\* nodes 1 and 2 feed each other, node 2 also feeds node 3, which feeds nobody
Chain3 ==
    [nets |-> << <<TransitionNew(0, 0, 0, 1, <<>>, << <<-2, 0>> >>)>>,
                 <<TransitionNew(1, 0, 0, 1, <<>>, << <<-1, 0>>, <<-3, 0>> >>)>>,
                 <<TransitionNew(2, 0, 0, 1, <<>>, <<>>)>> >>,
     terminal_clock |-> TerminalClock]

\* node 3 is fed by nodes 1 and 2 and feeds both
Fan3 ==
    [nets |-> << <<TransitionNew(0, 0, 0, 1, <<>>, << <<-3, 0>> >>)>>,
                 <<TransitionNew(1, 1, 0, 1, <<>>, << <<-3, 1>> >>)>>,
                 <<TransitionNew(2, 1, 0, 1, <<>>, << <<-1, 0>>, <<-2, 0>> >>)>> >>,
     terminal_clock |-> ShortTerminalClock]

\* transition 0 of node 1 has an internal delayed instruction on transition 5,
\* which no net has
Stray ==
    [nets |-> << <<TransitionNew(0, 0, 0, 1, <<>>, << <<5, 1>> >>),
                   TransitionNew(2, 1, 0, 1, <<>>, << <<-2, 0>> >>)>>,
                 <<TransitionNew(1, 1, 0, 1, <<>>, << <<-1, 0>> >>)>> >>,
     terminal_clock |-> ShortTerminalClock]

\* transition 0 of node 1 fires with duration 0 and re-arms itself, so node 1
\* stays at clock 0 and keeps sending; node 2 only sends PassiveEvents
Spin ==
    [nets |-> << <<TransitionNew(0, 0, 0, 0, <<>>, << <<0, 0>> >>),
                   TransitionNew(2, 1, 0, 1, <<>>, << <<-2, 0>> >>)>>,
                 <<TransitionNew(1, 1, 0, 1, <<>>, << <<-1, 0>> >>)>> >>,
     terminal_clock |-> ShortTerminalClock]

\* node 1: transitions 2 and 4 are due at clock 0; firing 4 raises the value
\* of 2 above 0, firing 2 lowers the value of 0, which is not due, to 0
Snapshot ==
    [nets |-> << <<TransitionNew(0, 1, 0, 1, <<>>, << <<-2, 0>> >>),
                   TransitionNew(2, 0, 0, 1, << <<0, 0>> >>, <<>>),
                   TransitionNew(4, 0, 0, 1, << <<2, 1>> >>, <<>>)>>,
                 <<TransitionNew(1, 1, 0, 1, <<>>, << <<-1, 0>> >>)>> >>,
     terminal_clock |-> ShortTerminalClock]

Cohorts == {Scenario1, Scenario2, Mutual, JumpAhead, Leap, ZeroDuration, Duplicates,
            ReverseOrder, Chain3, Fan3, Stray, Spin, Snapshot}

(***************************************************************************)
(* The state machine.                                                      *)
(***************************************************************************)
Init ==
    /\ cohort \in Cohorts
    /\ pc = [n \in NodesOf(cohort) |-> "new"]
    /\ clock = [n \in NodesOf(cohort) |-> 0]
    /\ net = [n \in NodesOf(cohort) |-> <<>>]
    /\ fed_nodes = [n \in NodesOf(cohort) |-> <<>>]
    /\ feeding_nodes = [n \in NodesOf(cohort) |-> <<>>]
    /\ internal_active_events = [n \in NodesOf(cohort) |-> <<>>]
    /\ external_active_events = [n \in NodesOf(cohort) |-> <<>>]
    /\ listener = [n \in NodesOf(cohort) |-> "none"]
    /\ accept_queue = [n \in NodesOf(cohort) |-> <<>>]
    /\ channel = [n \in NodesOf(cohort) |-> [f \in NodesOf(cohort) |-> <<>>]]
    /\ iter = [n \in NodesOf(cohort) |-> 0]
    /\ fired = [n \in NodesOf(cohort) |-> <<>>]
    /\ snapshot = [n \in NodesOf(cohort) |-> <<>>]
    /\ fired_now = [n \in NodesOf(cohort) |-> <<>>]
    /\ sent = [n \in NodesOf(cohort) |-> <<>>]
    /\ received = [n \in NodesOf(cohort) |-> <<>>]
    /\ clock_before_tick = [n \in NodesOf(cohort) |-> 0]
    /\ taken_blocking = [n \in NodesOf(cohort) |-> <<>>]
    /\ integration_start = [n \in NodesOf(cohort) |-> [transitions |-> <<>>, internal |-> <<>>]]
    /\ stranger_lines = 0

\* Engine::new panics: indexing node2fed_nodes or node2feeding_nodes with a
\* node that has no entry
NewPanics(n) ==
    /\ pc[n] = "new"
    /\ \/ n \notin DOMAIN node2fed_nodes(cohort.nets)
       \/ \E order \in IterationOrders(DOMAIN node2fed_nodes(cohort.nets)) :
             n \notin DOMAIN reverse_hashmap(node2fed_nodes(cohort.nets), order)
    /\ pc' = [pc EXCEPT ![n] = "panicked"]
    /\ UNCHANGED <<cohort, clock, net, fed_nodes, feeding_nodes, internal_active_events,
                   external_active_events, listener, accept_queue, channel, iter,
                   fired, snapshot, fired_now, sent, received, clock_before_tick,
                   taken_blocking, integration_start, stranger_lines>>

\* Engine::new returns the engine, its listener thread spawned
New(n) ==
    /\ pc[n] = "new"
    /\ n \in DOMAIN node2fed_nodes(cohort.nets)
    /\ \E order \in IterationOrders(DOMAIN node2fed_nodes(cohort.nets)) :
          LET node2feeding_nodes == reverse_hashmap(node2fed_nodes(cohort.nets), order)
          IN  /\ n \in DOMAIN node2feeding_nodes
              /\ feeding_nodes' = [feeding_nodes EXCEPT ![n] =
                     [i \in 1..Len(node2feeding_nodes[n]) |->
                         FeedingNodeNew(node2feeding_nodes[n][i])]]
    /\ fed_nodes' = [fed_nodes EXCEPT ![n] = node2fed_nodes(cohort.nets)[n]]
    /\ net' = [net EXCEPT ![n] = cohort.nets[n]]
    /\ clock' = [clock EXCEPT ![n] = 0]
    /\ listener' = [listener EXCEPT ![n] = "listening"]
    /\ pc' = [pc EXCEPT ![n] = "loop"]
    /\ UNCHANGED <<cohort, internal_active_events, external_active_events,
                   accept_queue, channel, iter,
                   fired, snapshot, fired_now, sent, received, clock_before_tick,
                   taken_blocking, integration_start, stranger_lines>>

\* Engine::run: the loop condition fails, run returns Ok
Finish(n) ==
    /\ pc[n] = "loop"
    /\ ~(clock[n] < cohort.terminal_clock)
    /\ pc' = [pc EXCEPT ![n] = "done"]
    /\ UNCHANGED <<cohort, clock, net, fed_nodes, feeding_nodes, internal_active_events,
                   external_active_events, listener, accept_queue, channel, iter,
                   fired, snapshot, fired_now, sent, received, clock_before_tick,
                   taken_blocking, integration_start, stranger_lines>>

\* Engine::run, phase 1
Fire(n) ==
    /\ pc[n] = "loop"
    /\ clock[n] < cohort.terminal_clock
    /\ iter[n] < MaxIter
    /\ LET st == FireEach(n, DueTransitions(net[n], clock[n]),
                          [ok          |-> TRUE,
                           transitions |-> net[n],
                           internal    |-> internal_active_events[n],
                           external    |-> external_active_events[n],
                           fired       |-> <<>>])
       IN  /\ net' = [net EXCEPT ![n] = st.transitions]
           /\ internal_active_events' = [internal_active_events EXCEPT ![n] = st.internal]
           /\ external_active_events' = [external_active_events EXCEPT ![n] = st.external]
           /\ fired_now' = [fired_now EXCEPT ![n] = st.fired]
           /\ fired' = [fired EXCEPT ![n] =
                  @ \o [i \in 1..Len(st.fired) |-> <<st.fired[i], clock[n]>>]]
           /\ pc' = [pc EXCEPT ![n] = IF st.ok THEN "dispatch" ELSE "panicked"]
    /\ snapshot' = [snapshot EXCEPT ![n] = net[n]]
    /\ iter' = [iter EXCEPT ![n] = @ + 1]
    /\ UNCHANGED <<cohort, clock, fed_nodes, feeding_nodes, listener, accept_queue,
                   channel, sent, received, clock_before_tick,
                   taken_blocking, integration_start, stranger_lines>>

\* Engine::run, phase 2: handle_external_events, then the buffer is cleared.
\* A delivery connects to the destination's listener; while a destination is
\* still starting the sender waits and retries; a destination without
\* listener refuses, which ends run with the error
Dispatch(n) ==
    /\ pc[n] = "dispatch"
    /\ LET deliveries == Deliveries(n, transition2node(cohort.nets),
                                    external_active_events[n], fed_nodes[n], clock[n])
           refused == {i \in 1..Len(deliveries) : listener[deliveries[i][1]] # "listening"}
           written == IF refused = {} THEN deliveries
                      ELSE SubSeq(deliveries, 1, Min(refused) - 1)
       IN  /\ \A i \in 1..Len(deliveries) : pc[deliveries[i][1]] # "new"
           /\ accept_queue' = [d \in NodesOf(cohort) |->
                  accept_queue[d]
                  \o [j \in 1..Len(SelectSeq(written, LAMBDA w : w[1] = d)) |->
                         SelectSeq(written, LAMBDA w : w[1] = d)[j][2]]]
           /\ sent' = [sent EXCEPT ![n] = written]
           /\ external_active_events' = [external_active_events EXCEPT ![n] =
                  IF refused = {} THEN Cleared(@) ELSE @]
           /\ pc' = [pc EXCEPT ![n] = IF refused = {} THEN "tick" ELSE "failed"]
    /\ UNCHANGED <<cohort, clock, net, fed_nodes, feeding_nodes, internal_active_events,
                   listener, channel, iter, fired, snapshot, fired_now, received,
                   clock_before_tick,
                   taken_blocking, integration_start, stranger_lines>>

\* the listener thread of node n reads the line of the next connection and
\* routes it to the channel of its feeding node
Listen(n) ==
    /\ listener[n] = "listening"
    /\ accept_queue[n] # <<>>
    /\ LET event == Head(accept_queue[n])
           routable == /\ ParsesAsGeneric(event)
                       /\ \E i \in 1..Len(feeding_nodes[n]) :
                             feeding_nodes[n][i].name = event.feeding_node
       IN  /\ channel' = [channel EXCEPT ![n] =
                  IF routable THEN [@ EXCEPT ![event.feeding_node] = Append(@, event)]
                  ELSE @]
           /\ listener' = [listener EXCEPT ![n] = IF routable THEN @ ELSE "panicked"]
    /\ accept_queue' = [accept_queue EXCEPT ![n] = Tail(@)]
    /\ UNCHANGED <<cohort, pc, clock, net, fed_nodes, feeding_nodes, internal_active_events,
                   external_active_events, iter, fired, snapshot, fired_now, sent,
                   received, clock_before_tick,
                   taken_blocking, integration_start, stranger_lines>>

\* Engine::run, phase 3: tick; it waits in recv() while a channel it blocks
\* on is empty and its Sender lives (in the listener thread)
Tick(n) ==
    /\ pc[n] = "tick"
    /\ \A i \in BlockingReceives(internal_active_events[n], feeding_nodes[n], clock[n]) :
          (HasSender(feeding_nodes[n], i) /\ listener[n] = "listening")
              => channel[n][feeding_nodes[n][i].name] # <<>>
    /\ LET fns == feeding_nodes[n]
           events == CollectedEvents(internal_active_events[n], fns, clock[n], channel[n])
           taken(f) == Len(SelectSeq(events, LAMBDA e : e.feeding_node = f))
           st == IntegrateReceived(events, [ok       |-> TRUE,
                                            internal |-> internal_active_events[n],
                                            fns      |-> fns])
       IN  /\ channel' = [channel EXCEPT ![n] =
                  [f \in DOMAIN @ |-> SubSeq(@[f], taken(f) + 1, Len(@[f]))]]
           /\ received' = [received EXCEPT ![n] = events]
           /\ internal_active_events' = [internal_active_events EXCEPT ![n] = st.internal]
           /\ feeding_nodes' = [feeding_nodes EXCEPT ![n] = st.fns]
           /\ clock' = [clock EXCEPT ![n] =
                  IF st.ok THEN NextClock(st.internal, clock[n]) ELSE @]
           /\ pc' = [pc EXCEPT ![n] = IF st.ok THEN "integrate" ELSE "panicked"]
    /\ clock_before_tick' = [clock_before_tick EXCEPT ![n] = clock[n]]
    /\ taken_blocking' = [taken_blocking EXCEPT ![n] =
           [i \in 1..Len(feeding_nodes[n]) |->
               SubSeq(channel[n][feeding_nodes[n][i].name], 1,
                      TakenBlocking(internal_active_events[n], feeding_nodes[n],
                                    clock[n], channel[n], i))]]
    /\ UNCHANGED <<cohort, net, fed_nodes, external_active_events, listener, accept_queue,
                   iter, fired, snapshot, fired_now, sent,
                   integration_start, stranger_lines>>

\* Engine::run, phase 4: handle_internal_events, back to the loop condition
Integrate(n) ==
    /\ pc[n] = "integrate"
    /\ net' = [net EXCEPT ![n] =
           ApplyInternal(@, internal_active_events[n], clock[n])]
    /\ internal_active_events' = [internal_active_events EXCEPT ![n] =
           RetainInternal(@, clock[n])]
    /\ pc' = [pc EXCEPT ![n] = "loop"]
    /\ integration_start' = [integration_start EXCEPT ![n] =
           [transitions |-> net[n], internal |-> internal_active_events[n]]]
    /\ UNCHANGED <<cohort, clock, fed_nodes, feeding_nodes, external_active_events,
                   listener, accept_queue, channel, iter, fired, snapshot, fired_now,
                   sent, received, clock_before_tick,
                   taken_blocking, stranger_lines>>

\* a client outside the cohort connects to the endpoint of node n and writes
\* one line
Inject(n) ==
    /\ listener[n] = "listening"
    /\ stranger_lines < MaxStrangerLines
    /\ \E line \in StrangerLines :
          accept_queue' = [accept_queue EXCEPT ![n] = Append(@, line)]
    /\ stranger_lines' = stranger_lines + 1
    /\ UNCHANGED <<cohort, pc, clock, net, fed_nodes, feeding_nodes, internal_active_events,
                   external_active_events, listener, channel, iter,
                   fired, snapshot, fired_now, sent, received, clock_before_tick,
                   taken_blocking, integration_start>>

\* the steps of the engine thread of node n
EngineStep(n) ==
    \/ NewPanics(n)
    \/ New(n)
    \/ Finish(n)
    \/ Fire(n)
    \/ Dispatch(n)
    \/ Tick(n)
    \/ Integrate(n)

Next ==
    \E n \in NodesOf(cohort) :
        \/ EngineStep(n)
        \/ Listen(n)

Spec == Init /\ [][Next]_vars

\* the runs of three of the cohorts in which every engine thread and every
\* listener thread that can take a step eventually takes one
FairCohorts == {Scenario2, Mutual, Leap}

FairInit == Init /\ cohort \in FairCohorts

FairSpec ==
    /\ FairInit
    /\ [][Next]_vars
    /\ \A n \in 1..MaxNodes :
          /\ WF_vars(n \in NodesOf(cohort) /\ EngineStep(n))
          /\ WF_vars(n \in NodesOf(cohort) /\ Listen(n))

\* the runs of the same cohorts with the endpoints open to clients outside
\* the cohort
OpenNext ==
    \/ Next
    \/ \E n \in NodesOf(cohort) : Inject(n)

OpenSpec == FairInit /\ [][OpenNext]_vars

(***************************************************************************)
(* Properties.                                                             *)
(***************************************************************************)
\* every node of the cohort gets through Engine::new
Constructible ==
    \A n \in NodesOf(cohort) :
        /\ n \in DOMAIN node2fed_nodes(cohort.nets)
        /\ \E m \in DOMAIN node2fed_nodes(cohort.nets) :
              n \in Range(node2fed_nodes(cohort.nets)[m])

\* node n has just finished a firing phase / a dispatch phase (or left it
\* with an error) / a tick; nothing has changed its clock or buffers since
AfterFiring(n) == pc[n] = "dispatch"
AfterDispatch(n) == pc[n] \in {"tick", "failed"}
AfterTick(n) == pc[n] = "integrate"

\* the position of the transition with this id in a transition list
PositionOf(transitions, id) ==
    Min({i \in 1..Len(transitions) : transitions[i].id = id})

\* C1: once tick has advanced a node's clock to c, no ActiveEvent with a
\* clock < c is afterwards received into that node's internal event buffer:
\* every ActiveEvent a tick receives carries a clock >= the clock the
\* engine had when that tick started.
C1_NoEventFromThePast ==
    \A n \in NodesOf(cohort) :
        AfterTick(n) =>
            \A i \in 1..Len(received[n]) :
                ParsesAsActive(received[n][i])
                    => received[n][i].clock >= clock_before_tick[n]

\* C2: engine.clock never decreases: the clock tick assigns is >= the clock
\* before tick.
C2_ClockMonotone ==
    \A n \in NodesOf(cohort) :
        AfterTick(n) => clock[n] >= clock_before_tick[n]

\* C3: with FIFO inboxes and every node scheduled fairly, in a cohort whose
\* engines can all be constructed every node's run() eventually returns
\* (no node stays blocked forever in tick).
C3_EveryRunReturns ==
    Constructible => <>(\A n \in NodesOf(cohort) : pc[n] = "done")

\* C4: after every tick, for every feeding node f: engine.clock <=
\* f.last_known_clock, or the internal buffer holds an event whose clock
\* equals engine.clock.
C4_ConservativeAfterTick ==
    \A n \in NodesOf(cohort) :
        AfterTick(n) =>
            \A i \in 1..Len(feeding_nodes[n]) :
                \/ clock[n] <= feeding_nodes[n][i].clock
                \/ \E j \in 1..Len(internal_active_events[n]) :
                      internal_active_events[n][j].clock = clock[n]

\* C5: every message a node sends in an iteration, active or passive,
\* carries a clock >= engine.clock + step of that iteration.
C5_Lookahead ==
    \A n \in NodesOf(cohort) :
        AfterDispatch(n) =>
            \A i \in 1..Len(sent[n]) : sent[n][i][2].clock >= clock[n] + step

\* C6: the dispatch phase delivers exactly one message to each fed node: an
\* ActiveEvent if an external event of this iteration targets the node,
\* otherwise a PassiveEvent.
C6_ExactlyOneMessagePerFedNode ==
    \A n \in NodesOf(cohort) :
        AfterDispatch(n) =>
            \A f \in Range(fed_nodes[n]) :
                LET to_f == SelectSeq(sent[n], LAMBDA d : d[1] = f)
                    targeted ==
                        \E k \in 1..Len(fired_now[n]) :
                            LET t == snapshot[n][PositionOf(snapshot[n], fired_now[n][k])]
                            IN  \E j \in 1..Len(t.delayed_instructions) :
                                   /\ t.delayed_instructions[j].is_external
                                   /\ transition2node(cohort.nets)
                                          [t.delayed_instructions[j].transition_id] = f
                IN  /\ Len(to_f) = 1
                    /\ ParsesAsActive(to_f[1][2]) <=> targeted

\* C7: every PassiveEvent a node sends carries clock == engine.clock + step
\* (the clock at the dispatch phase that sends it) and feeding_node == the
\* sender.
C7_PassiveEventFields ==
    \A n \in NodesOf(cohort) :
        AfterDispatch(n) =>
            \A i \in 1..Len(sent[n]) :
                ~ParsesAsActive(sent[n][i][2]) =>
                    /\ sent[n][i][2].clock = clock[n] + step
                    /\ sent[n][i][2].feeding_node = n

\* a node has just sent a PassiveEvent
C7_Witness ==
    \E n \in NodesOf(cohort) :
        /\ AfterDispatch(n)
        /\ \E i \in 1..Len(sent[n]) : ~ParsesAsActive(sent[n][i][2])

\* the fired transitions (positions in the transition list at the start of
\* the firing phase) with an immediate instruction on target id x
Writers(n, x) ==
    {PositionOf(snapshot[n], fired_now[n][k]) : k \in 1..Len(fired_now[n])}
    \cap {p \in 1..Len(snapshot[n]) :
             \E j \in 1..Len(snapshot[n][p].immediate_instructions) :
                 snapshot[n][p].immediate_instructions[j].transition_id = x}

\* the value the last immediate instruction of transition t on target x writes
LastWrite(t, x) ==
    LET on_x == SelectSeq(t.immediate_instructions, LAMBDA ins : ins.transition_id = x)
    IN  on_x[Len(on_x)].value

\* C8: the transitions due in an iteration fire in reverse order of their
\* position in the transition list, and a target assigned by the immediate
\* instructions of several fired transitions ends the firing phase with the
\* value written by the one that is earliest in the list.
C8_ReverseOrderFiring ==
    \A n \in NodesOf(cohort) :
        AfterFiring(n) =>
            /\ \A k, l \in 1..Len(fired_now[n]) :
                  k < l => PositionOf(snapshot[n], fired_now[n][k])
                               > PositionOf(snapshot[n], fired_now[n][l])
            /\ \A p \in 1..Len(net[n]) :
                  Writers(n, net[n][p].id) # {} =>
                      net[n][p].value =
                          LastWrite(snapshot[n][Min(Writers(n, net[n][p].id))], net[n][p].id)

\* two fired transitions have written different values to the same target
C8_Witness ==
    \E n \in NodesOf(cohort) :
        /\ AfterFiring(n)
        /\ \E p \in 1..Len(net[n]) :
              \E v, w \in Writers(n, net[n][p].id) :
                  /\ v < w
                  /\ LastWrite(snapshot[n][v], net[n][p].id)
                         # LastWrite(snapshot[n][w], net[n][p].id)

\* C9: only transitions with clock == engine.clock and value <= 0 (at the
\* start of the firing phase) fire; a transition whose value is > 0 is not
\* selected even when its clock equals engine.clock.
C9_OnlyEnabledAndDueFire ==
    \A n \in NodesOf(cohort) :
        AfterFiring(n) =>
            \A k \in 1..Len(fired_now[n]) :
                LET t == snapshot[n][PositionOf(snapshot[n], fired_now[n][k])]
                IN  t.clock = clock[n] /\ t.value <= 0

\* a firing phase has passed over a transition whose clock equals
\* engine.clock and whose value is > 0, and has fired another one
C9_Witness ==
    \E n \in NodesOf(cohort) :
        /\ AfterFiring(n)
        /\ fired_now[n] # <<>>
        /\ \E p \in 1..Len(snapshot[n]) :
              /\ snapshot[n][p].clock = clock[n]
              /\ snapshot[n][p].value > 0
              /\ snapshot[n][p].id \notin Range(fired_now[n])

\* C10: the single node of scenario 1 can be constructed and run: its
\* transition fires three times, at clocks 0, 1 and 2, and run() returns
\* with engine.clock == 3.
C10_Scenario1Runs ==
    cohort = Scenario1 =>
        /\ pc[1] # "panicked"
        /\ pc[1] = "done" =>
              /\ clock[1] = 3
              /\ fired[1] = << <<0, 0>>, <<0, 1>>, <<0, 2>> >>

\* C11: in scenario 2 (node 1 owns transition 0 with an external delayed
\* instruction on transition 1, node 2 owns transition 1, terminal_clock 2),
\* whatever the interleaving, both engines are constructed, node 2 fires
\* transition 1 at clock 1 after integrating node 1's ActiveEvent, and both
\* runs return with engine.clock == 2.
C11_Scenario2Runs ==
    cohort = Scenario2 =>
        /\ \A n \in NodesOf(cohort) : pc[n] # "panicked"
        /\ \A n \in NodesOf(cohort) : pc[n] = "done" => clock[n] = 2
        /\ pc[2] = "done" => <<1, 1>> \in Range(fired[2])

\* none of the transitions of node n has a delayed instruction
NoDelayedInstruction(n) ==
    \A i \in 1..Len(cohort.nets[n]) : cohort.nets[n][i].delayed_instructions = <<>>

\* C12: a node none of whose transitions has a delayed instruction runs, and
\* every one of its loop iterations advances engine.clock by exactly step.
C12_StepsWithoutDelayedInstructions ==
    \A n \in NodesOf(cohort) :
        NoDelayedInstruction(n) =>
            /\ pc[n] # "panicked"
            /\ AfterTick(n) => clock[n] = clock_before_tick[n] + step

\* C13: the external event buffer is empty at the top of every loop
\* iteration of run() and after every dispatch phase, whatever was fired in
\* the iteration.
C13_ExternalBufferEmpty ==
    \A n \in NodesOf(cohort) :
        pc[n] \in {"loop", "tick"} => external_active_events[n] = <<>>

\* a dispatch phase that has just sent an ActiveEvent, taken from the
\* external buffer, is over
C13_Witness ==
    \E n \in NodesOf(cohort) :
        /\ pc[n] = "tick"
        /\ \E i \in 1..Len(sent[n]) : ParsesAsActive(sent[n][i][2])
        /\ external_active_events[n] = <<>>

\* node n has just finished handle_internal_events (or has not started a
\* loop iteration yet): nothing has changed its net or its buffers since
AfterIntegration(n) == pc[n] \in {"loop", "done"}

\* how many times event e occurs in a buffer
Occurrences(events, e) == Len(SelectSeq(events, LAMBDA x : x = e))

\* C14: after the internal-event integration phase of every iteration, the
\* internal event buffer holds no event whose clock equals engine.clock, and
\* every event with a different clock that was buffered before the phase is
\* still buffered.
C14_IntegrationRetains ==
    \A n \in NodesOf(cohort) :
        AfterIntegration(n) =>
            /\ \A j \in 1..Len(internal_active_events[n]) :
                  internal_active_events[n][j].clock # clock[n]
            /\ \A e \in Range(integration_start[n].internal) :
                  e.clock # clock[n] =>
                      Occurrences(internal_active_events[n], e)
                          = Occurrences(integration_start[n].internal, e)

\* an integration phase started with an event of the current clock and an
\* event of another clock in the buffer
C14_Witness ==
    \E n \in NodesOf(cohort) :
        /\ AfterIntegration(n)
        /\ \E e \in Range(integration_start[n].internal) : e.clock = clock[n]
        /\ \E e \in Range(integration_start[n].internal) :
              e.clock # clock[n] /\ e \in Range(internal_active_events[n])

\* C15: a decode error or a protocol error (an event naming an unknown
\* feeding node) in the listener is fatal for the node: once its listener
\* has hit such an error, the engine's run() does not return Ok.
C15_ListenerErrorIsFatal ==
    [][\A n \in NodesOf(cohort) :
          listener[n] = "panicked" => ~(pc[n] = "loop" /\ pc'[n] = "done")]_vars

\* the lines the latest tick of node n consumed from feeding node f
ConsumedFrom(n, f) == SelectSeq(received[n], LAMBDA e : e.feeding_node = f)

\* C16: after any tick, for every feeding node f a message was consumed
\* from, f.last_known_clock equals the clock of the most recent message
\* consumed from f, be it an ActiveEvent or a PassiveEvent.
C16_ActiveEventUpdatesFeedingClock ==
    \A n \in NodesOf(cohort) :
        AfterTick(n) =>
            \A i \in 1..Len(feeding_nodes[n]) :
                LET f == feeding_nodes[n][i].name
                    consumed == ConsumedFrom(n, f)
                IN  (consumed # <<>> /\ \A j \in 1..(i - 1) : feeding_nodes[n][j].name # f)
                        => feeding_nodes[n][i].clock = consumed[Len(consumed)].clock

\* C17: tick consumes every message that is present in any feeding node's
\* inbox, however many are queued: when tick is over, no line that was
\* already in a channel is left for a later iteration.
C17_TickDrainsInboxes ==
    [][\A n \in NodesOf(cohort) :
          (pc[n] = "tick" /\ pc'[n] = "integrate") =>
              \A f \in NodesOf(cohort) : channel'[n][f] = <<>>]_vars

\* C18: in tick, for each feeding node whose last_known_clock equals
\* earliest = min(internal event clocks, feeding-node clocks), exactly one
\* message is consumed by a blocking receive before the clock is changed; in
\* particular, when the internal buffer is empty and all feeding-node clocks
\* equal engine.clock, tick does not end without having consumed a message.
C18_OneBlockingReceivePerEarliest ==
    [][\A n \in NodesOf(cohort) :
          (pc[n] = "tick" /\ pc'[n] = "integrate") =>
              LET fns == feeding_nodes[n]
                  clocks == {internal_active_events[n][j].clock :
                                j \in 1..Len(internal_active_events[n])}
                            \cup {fns[i].clock : i \in 1..Len(fns)}
              IN  /\ \A i \in 1..Len(fns) :
                        fns[i].clock = Min(clocks) => Len(taken_blocking'[n][i]) = 1
                  /\ (/\ internal_active_events[n] = <<>>
                      /\ fns # <<>>
                      /\ \A i \in 1..Len(fns) : fns[i].clock = clock[n])
                         => received'[n] # <<>>]_vars

\* the events of node n's latest integration phase that were due (clock ==
\* engine.clock), in buffer order
DueAtIntegration(n) ==
    SelectSeq(integration_start[n].internal, LAMBDA e : e.clock = clock[n])

\* the target of event e is a transition of node n's net
IsLocal(n, e) ==
    \E p \in 1..Len(integration_start[n].transitions) :
        integration_start[n].transitions[p].id = e.transition_id

\* C19: during internal event integration, an event with clock ==
\* engine.clock whose target transition id is not in the local net leaves
\* every local transition's value and clock unchanged (a transition no due
\* local event targets is as it was before the phase), is removed from the
\* internal buffer, and the run goes on to the loop condition.
C19_StrayEventIgnored ==
    \A n \in NodesOf(cohort) :
        (AfterIntegration(n) /\ \E e \in Range(DueAtIntegration(n)) : ~IsLocal(n, e)) =>
            /\ Len(net[n]) = Len(integration_start[n].transitions)
            /\ \A p \in 1..Len(net[n]) :
                  (\A e \in Range(DueAtIntegration(n)) :
                       IsLocal(n, e) =>
                           PositionOf(integration_start[n].transitions, e.transition_id) # p)
                  => /\ net[n][p].value = integration_start[n].transitions[p].value
                     /\ net[n][p].clock = integration_start[n].transitions[p].clock
            /\ \A e \in Range(DueAtIntegration(n)) :
                  ~IsLocal(n, e) => e \notin Range(internal_active_events[n])

\* an integration phase with a due event whose target is not local, and a
\* transition whose clock differs from that event's, is over
C19_Witness ==
    \E n \in NodesOf(cohort) :
        /\ AfterIntegration(n)
        /\ \E e \in Range(DueAtIntegration(n)) :
              /\ ~IsLocal(n, e)
              /\ \E p \in 1..Len(net[n]) :
                    /\ net[n][p].clock # e.clock
                    /\ net[n][p] = integration_start[n].transitions[p]

\* the nodes owning a transition targeted by an external delayed instruction
\* of node n
FedSet(n) ==
    UNION {{transition2node(cohort.nets)[instruction.transition_id] :
               instruction \in {x \in Range(cohort.nets[n][i].delayed_instructions) :
                                   x.is_external}} :
           i \in 1..Len(cohort.nets[n])}

\* C20: Engine::new succeeds for every node, also for one with no external
\* delayed instruction or with no feeder; fed_nodes lists the nodes owning a
\* transition targeted by an external delayed instruction of the node,
\* feeding_nodes the nodes of which this node is a fed node, and each peer
\* appears at most once in each list.
C20_FedAndFeedingNodes ==
    \A n \in NodesOf(cohort) :
        /\ ~(pc[n] = "panicked" /\ listener[n] = "none")
        /\ listener[n] # "none" =>
              /\ Range(fed_nodes[n]) = FedSet(n)
              /\ Cardinality(Range(fed_nodes[n])) = Len(fed_nodes[n])
              /\ {feeding_nodes[n][i].name : i \in 1..Len(feeding_nodes[n])}
                     = {m \in NodesOf(cohort) : n \in FedSet(m)}
              /\ \A i, j \in 1..Len(feeding_nodes[n]) :
                    feeding_nodes[n][i].name = feeding_nodes[n][j].name => i = j

\* the positions (in the transition list at the start of the firing phase)
\* of the transitions that were due then
DueAtStart(n) ==
    {p \in 1..Len(snapshot[n]) :
        snapshot[n][p].clock = clock[n] /\ snapshot[n][p].value <= 0}

\* a transition fired earlier in the latest firing phase of node n than
\* position k of the firing order has an immediate instruction that
\* assigns target id x a value satisfying Test
WrittenBefore(n, k, x, Test(_)) ==
    \E l \in 1..(k - 1) :
        LET t == snapshot[n][PositionOf(snapshot[n], fired_now[n][l])]
        IN  \E j \in 1..Len(t.immediate_instructions) :
               /\ t.immediate_instructions[j].transition_id = x
               /\ Test(t.immediate_instructions[j].value)

\* C21: the transitions fired in an iteration are exactly those that were
\* due (clock == engine.clock, value <= 0) in the net at the start of the
\* firing phase, each once: an immediate instruction applied during the
\* phase neither cancels the firing of a selected transition nor makes a
\* non-selected transition fire in the same iteration.
C21_FiringSetFixedAtStart ==
    \A n \in NodesOf(cohort) :
        AfterFiring(n) =>
            /\ Range(fired_now[n]) = {snapshot[n][p].id : p \in DueAtStart(n)}
            /\ Len(fired_now[n]) = Cardinality(DueAtStart(n))

\* a firing phase in which a selected transition fired after an immediate
\* instruction had raised its value above 0, and a transition that was not
\* selected, with clock == engine.clock, did not fire although an immediate
\* instruction lowered its value to <= 0
C21_Witness ==
    \E n \in NodesOf(cohort) :
        /\ AfterFiring(n)
        /\ \E k \in 1..Len(fired_now[n]) :
              WrittenBefore(n, k, fired_now[n][k], LAMBDA v : v > 0)
        /\ \E p \in 1..Len(snapshot[n]) :
              /\ snapshot[n][p].clock = clock[n]
              /\ snapshot[n][p].value > 0
              /\ net[n][p].value <= 0
              /\ snapshot[n][p].id \notin Range(fired_now[n])
              /\ WrittenBefore(n, Len(fired_now[n]) + 1, snapshot[n][p].id,
                               LAMBDA v : v <= 0)

====
